---------------------------- MODULE Spec2Model ----------------------------
(***************************************************************************)
(* Pomodoro timer (App component, timestamp-based variant with history).   *)
(*                                                                         *)
(* React semantics used throughout: an event handler or timer callback    *)
(* reads the state of the render it was created in (its closure) and      *)
(* queues state updates; React applies the queued updates in one batch,   *)
(* renders, and then runs, in declaration order, every effect whose       *)
(* dependencies changed.  Updates queued by effects cause a further       *)
(* render.  One action of this model is one handler together with the     *)
(* renders and effects it causes, up to the quiescent state.              *)
(*                                                                         *)
(* Time is in milliseconds since 00:00:00 UTC of OriginDate.               *)
(***************************************************************************)
EXTENDS Integers, FiniteSets, Sequences, TLC

VARIABLES
    now,             \* Date.now()
    mode, settings, timeLeft, initialTime, isRunning,
    startTime, pausedTime,
    pomodoroCount, totalFocusTime, goalAchieved,
    history,         \* HistoryData, as a set of DailyRecord with distinct dates
    interval,        \* the timer effect's setInterval handle is live
    lastFocusUpdate, \* the timer effect's local variable (NoTime when no interval)
    tz,              \* local time zone offset, minutes east of UTC
    currentDate,     \* Calendar: the month on display, [y, m]
    advances,        \* number of clock advances so far (model bound)
    storedSettings,  \* localStorage item "pomodoroSettings"
    storedHistory,   \* localStorage item "pomodoroHistory"
    storageOk,       \* localStorage.setItem succeeds (environment)
    crashed,         \* the App function threw while rendering
    saveFailed,      \* a setItem call has thrown (not program state)
    focusRun,        \* where the live interval began (not program state)
    ev               \* observation of the last action (not program state)

vars == << now, mode, settings, timeLeft, initialTime, isRunning, startTime,
           pausedTime, pomodoroCount, totalFocusTime, goalAchieved, history,
           interval, lastFocusUpdate, tz, currentDate, advances,
           storedSettings, storedHistory, storageOk, crashed, saveFailed,
           focusRun, ev >>

-----------------------------------------------------------------------------
(* Program constants *)

MsPerSecond == 1000
SecPerMinute == 60
SecPerHour == 3600
LongBreakEvery == 4
MsPerMinute == SecPerMinute * MsPerSecond
MsPerDay == 24 * SecPerHour * MsPerSecond

\* startTime === null
NoTime == -1

Modes == {"focus", "shortBreak", "longBreak"}

DEFAULT_SETTINGS ==
    [focus |-> 25, shortBreak |-> 5, longBreak |-> 15,
     autoStartBreaks |-> TRUE, autoStartFocus |-> FALSE,
     goalTime |-> 12, cycleCount |-> 4]

(* Bounds and input sets of the model *)

MaxAdvances == 3

\* Completed focus sessions, where a duration of zero lets them complete
\* without the clock moving.
MaxSessions == 4

\* Settings a user can save in the settings form (and so find stored later).
QuickSettings ==
    [focus |-> 1, shortBreak |-> 1, longBreak |-> 2,
     autoStartBreaks |-> FALSE, autoStartFocus |-> TRUE,
     goalTime |-> 1, cycleCount |-> 60]

SettingsChoices == {DEFAULT_SETTINGS, QuickSettings}

\* Clock advances between two events.
AdvanceSteps == {500, 1000, 60000, 1500500}

\* Clock values at which the page is opened: 23:59:59 UTC of the origin day.
StartTimes == {MsPerDay - MsPerSecond}

Max0(x) == IF x > 0 THEN x ELSE 0

-----------------------------------------------------------------------------
(* Calendar dates.  A date key "YYYY-MM-DD" is the record [y, m, d]. *)

OriginDate == [y |-> 2024, m |-> 2, d |-> 28]

IsLeap(y) == (y % 4 = 0 /\ y % 100 # 0) \/ y % 400 = 0

DaysInMonth(y, m) ==
    IF m = 2 THEN (IF IsLeap(y) THEN 29 ELSE 28)
    ELSE IF m \in {4, 6, 9, 11} THEN 30 ELSE 31

NextDay(k) ==
    IF k.d < DaysInMonth(k.y, k.m) THEN [k EXCEPT !.d = @ + 1]
    ELSE IF k.m < 12 THEN [y |-> k.y, m |-> k.m + 1, d |-> 1]
    ELSE [y |-> k.y + 1, m |-> 1, d |-> 1]

PrevDay(k) ==
    IF k.d > 1 THEN [k EXCEPT !.d = @ - 1]
    ELSE IF k.m > 1 THEN [y |-> k.y, m |-> k.m - 1, d |-> DaysInMonth(k.y, k.m - 1)]
    ELSE [y |-> k.y - 1, m |-> 12, d |-> 31]

RECURSIVE AddDays(_, _)
AddDays(k, n) ==
    IF n = 0 THEN k
    ELSE IF n > 0 THEN AddDays(NextDay(k), n - 1)
    ELSE AddDays(PrevDay(k), n + 1)

\* The calendar date of day number n (days since the origin day).
DateOfDay(n) == AddDays(OriginDate, n)

\* Date#toISOString().split('T')[0]: the calendar date in UTC.
UtcDate(t) == DateOfDay(t \div MsPerDay)

\* Date#getFullYear / getMonth / getDate: the calendar date in local time.
LocalDate(t, offset) == DateOfDay((t + offset * MsPerMinute) \div MsPerDay)

\* new Date("YYYY-MM-DD"): a date-only string is parsed as midnight UTC.
ParseDate(k) ==
    MsPerDay * (CHOOSE n \in -7..7 : DateOfDay(n) = k)

getTodayDate(t) == UtcDate(t)

getTodayData(h, t) ==
    IF \E r \in h : r.date = getTodayDate(t)
    THEN CHOOSE r \in h : r.date = getTodayDate(t)
    ELSE [date |-> getTodayDate(t), totalFocusTime |-> 0,
          pomodoroCount |-> 0, goalAchieved |-> FALSE]

\* (variant: the new record alone)
PutRecordOnly(h, rec) == {rec}

\* { ...history, [key]: rec }
PutRecord(h, rec) == {r \in h : r.date # rec.date} \cup {rec}

-----------------------------------------------------------------------------
(* localStorage.  An item is absent, or a text: the JSON text of a value     *)
(* (json holds the value), the text "null", or a text that is not JSON.     *)

Absent == [kind |-> "absent", json |-> {}]
NullText == [kind |-> "null", json |-> {}]
BrokenText == [kind |-> "broken", json |-> {}]

\* JSON.stringify(v), for a value of numbers, booleans, strings and objects
JSONstringify(v) == [kind |-> "json", json |-> {v}]

\* JSON.parse(text): a value, null, or a SyntaxError
JSONparse(item) ==
    CASE item.kind = "json" -> [type |-> "object", val |-> item.json]
      [] item.kind = "null" -> [type |-> "null", val |-> {}]
      [] OTHER -> [type |-> "throws", val |-> {}]

\* getItem, then JSON.parse of a text, with the fallback for no item and for
\* an exception.  The parsed value is returned as it is.
LoadOr(item, fallback) ==
    LET parsed == JSONparse(item)
    IN  IF item.kind = "absent" \/ parsed.type = "throws"
        THEN [type |-> "object", val |-> {fallback}]
        ELSE parsed

\* (variant: the stored settings are not read)
loadSettingsDefault(item) == LoadOr(Absent, DEFAULT_SETTINGS)

loadSettings(item) == LoadOr(item, DEFAULT_SETTINGS)

loadHistory(item) == LoadOr(item, {})

\* The focus run of no interval.
NoRun == [since |-> NoTime, base |-> 0]

-----------------------------------------------------------------------------
(* The countdown engine *)

\* (variant: no lower bound)
RemainingNoClamp(D, t0, t) == D - ((t - t0) \div MsPerSecond)

\* (variant: the elapsed time rounded up instead of down)
RemainingCeil(D, t0, t) == Max0(D - ((t - t0 + MsPerSecond - 1) \div MsPerSecond))

\* Math.max(0, initialTime - Math.floor((now - startTime) / 1000))
Remaining(D, t0, t) == Max0(D - ((t - t0) \div MsPerSecond))

-----------------------------------------------------------------------------
(* Handlers.  c is the render the handler closes over, a the state with   *)
(* the updates queued so far applied; the result is a with this handler's *)
(* updates applied.  t is Date.now().                                      *)

\* (variant: the anchor left for the start/stop effect to set)
switchModeDeferred(c, a, newMode, autoStart, t) ==
    LET newTime == c.settings[newMode] * SecPerMinute
    IN  [a EXCEPT !.mode = newMode,
                  !.timeLeft = newTime,
                  !.initialTime = newTime,
                  !.pausedTime = newTime,
                  !.isRunning = autoStart,
                  !.startTime = NoTime]

\* (variant: a switch of mode starts the count of sessions again)
switchModeClearsCount(c, a, newMode, autoStart, t) ==
    LET newTime == c.settings[newMode] * SecPerMinute
    IN  [a EXCEPT !.mode = newMode,
                  !.timeLeft = newTime,
                  !.initialTime = newTime,
                  !.pausedTime = newTime,
                  !.isRunning = autoStart,
                  !.startTime = IF autoStart THEN t ELSE NoTime,
                  !.pomodoroCount = 0]

switchMode(c, a, newMode, autoStart, t) ==
    LET newTime == c.settings[newMode] * SecPerMinute
    IN  [a EXCEPT !.mode = newMode,
                  !.timeLeft = newTime,
                  !.initialTime = newTime,
                  !.pausedTime = newTime,
                  !.isRunning = autoStart,
                  !.startTime = IF autoStart THEN t ELSE NoTime]

\* (variant: the long break after the 1st, 5th, ... session)
NextBreakOffByOne(newCount) ==
    IF newCount % LongBreakEvery = 1 THEN "longBreak" ELSE "shortBreak"

NextBreak(newCount) ==
    IF newCount % LongBreakEvery = 0 THEN "longBreak" ELSE "shortBreak"

\* (variant: the long break placed by the cycle display count)
handleTimerCompleteByCycle(c, a, t) ==
    LET a1 == [a EXCEPT !.isRunning = FALSE,
                        !.startTime = NoTime,
                        !.notified = @ + 1]
        newCount == c.pomodoroCount + 1
    IN  IF c.mode = "focus"
        THEN switchMode(c, [a1 EXCEPT !.pomodoroCount = newCount],
                        IF newCount % c.settings.cycleCount = 0
                        THEN "longBreak" ELSE "shortBreak",
                        c.settings.autoStartBreaks, t)
        ELSE switchMode(c, a1, "focus", c.settings.autoStartFocus, t)

\* (variant: a completed break counted as a session)
handleTimerCompleteCountsBreaks(c, a, t) ==
    LET a1 == [a EXCEPT !.isRunning = FALSE,
                        !.startTime = NoTime,
                        !.notified = @ + 1]
        newCount == c.pomodoroCount + 1
    IN  IF c.mode = "focus"
        THEN switchMode(c, [a1 EXCEPT !.pomodoroCount = newCount],
                        NextBreak(newCount), c.settings.autoStartBreaks, t)
        ELSE switchMode(c, [a1 EXCEPT !.pomodoroCount = newCount],
                        "focus", c.settings.autoStartFocus, t)

\* (variant: the two auto-start settings exchanged)
handleTimerCompleteSwapped(c, a, t) ==
    LET a1 == [a EXCEPT !.isRunning = FALSE,
                        !.startTime = NoTime,
                        !.notified = @ + 1]
        newCount == c.pomodoroCount + 1
    IN  IF c.mode = "focus"
        THEN switchMode(c, [a1 EXCEPT !.pomodoroCount = newCount],
                        NextBreak(newCount), c.settings.autoStartFocus, t)
        ELSE switchMode(c, a1, "focus", c.settings.autoStartBreaks, t)

\* (variant: a completed long break followed by a short break)
handleTimerCompleteRepeatsBreak(c, a, t) ==
    LET a1 == [a EXCEPT !.isRunning = FALSE,
                        !.startTime = NoTime,
                        !.notified = @ + 1]
        newCount == c.pomodoroCount + 1
    IN  IF c.mode = "focus"
        THEN switchMode(c, [a1 EXCEPT !.pomodoroCount = newCount],
                        NextBreak(newCount), c.settings.autoStartBreaks, t)
        ELSE switchMode(c, a1,
                        IF c.mode = "longBreak" THEN "shortBreak" ELSE "focus",
                        c.settings.autoStartFocus, t)

handleTimerComplete(c, a, t) ==
    LET a1 == [a EXCEPT !.isRunning = FALSE,
                        !.startTime = NoTime,
                        !.notified = @ + 1]   \* flashTitle, showNotification, playSound
        newCount == c.pomodoroCount + 1
    IN  IF c.mode = "focus"
        THEN switchMode(c, [a1 EXCEPT !.pomodoroCount = newCount],
                        NextBreak(newCount), c.settings.autoStartBreaks, t)
        ELSE switchMode(c, a1, "focus", c.settings.autoStartFocus, t)

toggleTimer(c, a) == [a EXCEPT !.isRunning = ~c.isRunning]

\* (variant: the reset leaves the timer running)
resetTimerKeepsRunning(c, a) ==
    [a EXCEPT !.timeLeft = c.initialTime,
              !.startTime = NoTime,
              !.pausedTime = c.initialTime]

\* (variant: the reset leaves the paused time as it was)
resetTimerNoPause(c, a) ==
    [a EXCEPT !.isRunning = FALSE,
              !.timeLeft = c.initialTime,
              !.startTime = NoTime]

\* (variant: the reset also clears the count of sessions)
resetTimerClearsCount(c, a) ==
    [a EXCEPT !.isRunning = FALSE,
              !.timeLeft = c.initialTime,
              !.startTime = NoTime,
              !.pausedTime = c.initialTime,
              !.pomodoroCount = 0]

resetTimer(c, a) ==
    [a EXCEPT !.isRunning = FALSE,
              !.timeLeft = c.initialTime,
              !.startTime = NoTime,
              !.pausedTime = c.initialTime]

\* (variant: a new goal leaves goalAchieved as it was)
updateSettingsKeepGoal(c, a, newSettings) ==
    LET newTime == newSettings[c.mode] * SecPerMinute
    IN  [a EXCEPT !.settings = newSettings,
                  !.settingsSet = TRUE,
                  !.timeLeft = newTime,
                  !.initialTime = newTime,
                  !.startTime = NoTime,
                  !.pausedTime = newTime]

\* (variant: the countdown keeps the time already shown)
updateSettingsKeepProgress(c, a, newSettings) ==
    LET newTime == newSettings[c.mode] * SecPerMinute
    IN  [a EXCEPT !.settings = newSettings,
                  !.settingsSet = TRUE,
                  !.initialTime = newTime,
                  !.startTime = NoTime,
                  !.pausedTime = newTime,
                  !.goalAchieved =
                      IF newSettings.goalTime # c.settings.goalTime THEN FALSE ELSE @]

updateSettings(c, a, newSettings) ==
    LET newTime == newSettings[c.mode] * SecPerMinute
    IN  [a EXCEPT !.settings = newSettings,
                  !.settingsSet = TRUE,
                  !.timeLeft = newTime,
                  !.initialTime = newTime,
                  !.startTime = NoTime,
                  !.pausedTime = newTime,
                  !.goalAchieved =
                      IF newSettings.goalTime # c.settings.goalTime THEN FALSE ELSE @]

\* (variant: the seconds of a break credited as well)
intervalTickAnyMode(c, a, t) ==
    LET newTimeLeft == Remaining(c.initialTime, c.startTime, t)
        due == t - a.lastFocusUpdate >= MsPerSecond
        a1 == IF due
              THEN [a EXCEPT !.totalFocusTime =
                                 @ + ((t - a.lastFocusUpdate) \div MsPerSecond),
                             !.lastFocusUpdate = t]
              ELSE a
        a2 == [a1 EXCEPT !.timeLeft = newTimeLeft,
                         !.evals = Append(@, newTimeLeft)]
    IN  IF newTimeLeft = 0 THEN handleTimerComplete(c, a2, t) ELSE a2

\* (variant: a countdown at zero is shown and left at that)
intervalTickNoComplete(c, a, t) ==
    LET newTimeLeft == Remaining(c.initialTime, c.startTime, t)
        due == c.mode = "focus" /\ t - a.lastFocusUpdate >= MsPerSecond
        a1 == IF due
              THEN [a EXCEPT !.totalFocusTime =
                                 @ + ((t - a.lastFocusUpdate) \div MsPerSecond),
                             !.lastFocusUpdate = t]
              ELSE a
    IN  [a1 EXCEPT !.timeLeft = newTimeLeft,
                   !.evals = Append(@, newTimeLeft)]

\* The setInterval callback of the timer effect.
intervalTick(c, a, t) ==
    LET newTimeLeft == Remaining(c.initialTime, c.startTime, t)
        due == c.mode = "focus" /\ t - a.lastFocusUpdate >= MsPerSecond
        a1 == IF due
              THEN [a EXCEPT !.totalFocusTime =
                                 @ + ((t - a.lastFocusUpdate) \div MsPerSecond),
                             !.lastFocusUpdate = t]
              ELSE a
        a2 == [a1 EXCEPT !.timeLeft = newTimeLeft,
                         !.evals = Append(@, newTimeLeft)]
    IN  IF newTimeLeft = 0 THEN handleTimerComplete(c, a2, t) ELSE a2

\* The visibilitychange listener, with the document visible.
handleVisibilityChange(c, a, t) ==
    IF c.isRunning /\ c.startTime # NoTime
    THEN LET newTimeLeft == Remaining(c.initialTime, c.startTime, t)
             a1 == [a EXCEPT !.timeLeft = newTimeLeft,
                             !.evals = Append(@, newTimeLeft)]
         IN  IF newTimeLeft = 0 THEN handleTimerComplete(c, a1, t) ELSE a1
    ELSE a

-----------------------------------------------------------------------------
(* Effects.  p is the previous render, c the render just committed; mount *)
(* is TRUE for the first render, when every effect runs.  The result is c *)
(* with the updates the effects queue applied.                             *)

\* useEffect(..., [settings]): setItem in a try block.  The form hands over
\* a new object on every save, so the dependency differs by identity also
\* when the values are those already in force.
settingsEffect(p, c, a, mount) ==
    IF mount \/ p.settings # c.settings \/ p.settingsSet # c.settingsSet
    THEN IF a.storageOk
         THEN [a EXCEPT !.storedSettings = JSONstringify(c.settings)]
         ELSE [a EXCEPT !.saveFailed = TRUE]
    ELSE a

\* (variant: a failed save undoes the update of the history)
historyEffectRollback(p, c, a, mount, t) ==
    IF mount \/ p.totalFocusTime # c.totalFocusTime
             \/ p.pomodoroCount # c.pomodoroCount
             \/ p.goalAchieved # c.goalAchieved
    THEN LET updatedHistory ==
                 PutRecord(c.history,
                           [date |-> getTodayDate(t),
                            totalFocusTime |-> c.totalFocusTime,
                            pomodoroCount |-> c.pomodoroCount,
                            goalAchieved |-> c.goalAchieved])
         IN  IF a.storageOk
             THEN [a EXCEPT !.history = updatedHistory,
                            !.storedHistory = JSONstringify(updatedHistory)]
             ELSE [a EXCEPT !.saveFailed = TRUE]
    ELSE a

\* (variant: the history as it was before the update is what is stored)
historyEffectStoresOld(p, c, a, mount, t) ==
    IF mount \/ p.totalFocusTime # c.totalFocusTime
             \/ p.pomodoroCount # c.pomodoroCount
             \/ p.goalAchieved # c.goalAchieved
    THEN LET updatedHistory ==
                 PutRecord(c.history,
                           [date |-> getTodayDate(t),
                            totalFocusTime |-> c.totalFocusTime,
                            pomodoroCount |-> c.pomodoroCount,
                            goalAchieved |-> c.goalAchieved])
             a1 == [a EXCEPT !.history = updatedHistory]
         IN  IF a.storageOk
             THEN [a1 EXCEPT !.storedHistory = JSONstringify(c.history)]
             ELSE [a1 EXCEPT !.saveFailed = TRUE]
    ELSE a

\* useEffect(..., [totalFocusTime, pomodoroCount, goalAchieved]): setHistory,
\* then setItem in a try block.
historyEffect(p, c, a, mount, t) ==
    IF mount \/ p.totalFocusTime # c.totalFocusTime
             \/ p.pomodoroCount # c.pomodoroCount
             \/ p.goalAchieved # c.goalAchieved
    THEN LET updatedHistory ==
                 PutRecord(c.history,
                           [date |-> getTodayDate(t),
                            totalFocusTime |-> c.totalFocusTime,
                            pomodoroCount |-> c.pomodoroCount,
                            goalAchieved |-> c.goalAchieved])
             a1 == [a EXCEPT !.history = updatedHistory]
         IN  IF a.storageOk
             THEN [a1 EXCEPT !.storedHistory = JSONstringify(updatedHistory)]
             ELSE [a1 EXCEPT !.saveFailed = TRUE]
    ELSE a

\* (variant: no check of goalAchieved before signalling)
goalEffectNoLatch(p, c, a, mount) ==
    IF (mount \/ p.totalFocusTime # c.totalFocusTime
              \/ p.settings.goalTime # c.settings.goalTime
              \/ p.goalAchieved # c.goalAchieved)
       /\ c.totalFocusTime >= c.settings.goalTime * SecPerHour
    THEN [a EXCEPT !.goalAchieved = TRUE,
                   !.goalSignals = @ + 1]
    ELSE a

\* useEffect(..., [totalFocusTime, settings.goalTime, goalAchieved])
goalEffect(p, c, a, mount) ==
    IF (mount \/ p.totalFocusTime # c.totalFocusTime
              \/ p.settings.goalTime # c.settings.goalTime
              \/ p.goalAchieved # c.goalAchieved)
       /\ ~c.goalAchieved
       /\ c.totalFocusTime >= c.settings.goalTime * SecPerHour
    THEN [a EXCEPT !.goalAchieved = TRUE,
                   !.goalSignals = @ + 1]   \* title flash, notification, sound
    ELSE a

\* (variant: the anchor set to the current time, the elapsed part forgotten)
startStopEffectFresh(p, c, a, mount, t) ==
    IF mount \/ p.isRunning # c.isRunning
    THEN IF c.isRunning
         THEN [a EXCEPT !.startTime = t]
         ELSE [a EXCEPT !.pausedTime = c.timeLeft, !.startTime = NoTime]
    ELSE a

\* useEffect(..., [isRunning])
startStopEffect(p, c, a, mount, t) ==
    IF mount \/ p.isRunning # c.isRunning
    THEN IF c.isRunning
         THEN [a EXCEPT !.startTime =
                            t - (c.initialTime - c.timeLeft) * MsPerSecond]
         ELSE [a EXCEPT !.pausedTime = c.timeLeft, !.startTime = NoTime]
    ELSE a

\* useEffect(..., [isRunning, startTime, mode, initialTime]): the cleanup
\* clears the interval, the body sets a new one up.  lastFocusUpdate is read
\* by the interval callback only, so it is kept as NoTime without an interval.
timerEffect(p, c, a, mount, t) ==
    IF mount \/ p.isRunning # c.isRunning \/ p.startTime # c.startTime
             \/ p.mode # c.mode \/ p.initialTime # c.initialTime
    THEN LET on == c.isRunning /\ c.startTime # NoTime
         IN  [a EXCEPT !.interval = on,
                       !.lastFocusUpdate = IF on THEN t ELSE NoTime,
                       !.focusRun = IF on /\ c.mode = "focus"
                                    THEN [since |-> t, base |-> a.totalFocusTime]
                                    ELSE NoRun]
    ELSE a

EffectPass(p, c, mount, t) ==
    LET a0 == settingsEffect(p, c, c, mount)
        a1 == historyEffect(p, c, a0, mount, t)
        a2 == goalEffect(p, c, a1, mount)
        a3 == startStopEffect(p, c, a2, mount, t)
    IN  timerEffect(p, c, a3, mount, t)

\* The fields React holds as state (a change of one of them is a new render).
Rendered(r) ==
    << r.mode, r.settings, r.timeLeft, r.initialTime, r.isRunning, r.startTime,
       r.pausedTime, r.pomodoroCount, r.totalFocusTime, r.goalAchieved,
       r.history >>

\* Render c after p, run the effects, and render again while they queue
\* updates.  (c0 is the render c and n the render after its effects, each
\* bound as a value.)
RECURSIVE Settle(_, _, _, _)
Settle(p, c, mount, t) ==
    CHOOSE r \in UNION {{IF Rendered(n) = Rendered(c0)
                            THEN n ELSE Settle(c0, n, FALSE, t)
                            : n \in {EffectPass(p, c0, mount, t)}}
                         : c0 \in {c}} : TRUE

-----------------------------------------------------------------------------
(* State *)

\* The current render, with nothing observed yet.
Cur ==
    [mode |-> mode, settings |-> settings, timeLeft |-> timeLeft,
     initialTime |-> initialTime, isRunning |-> isRunning,
     startTime |-> startTime, pausedTime |-> pausedTime,
     pomodoroCount |-> pomodoroCount, totalFocusTime |-> totalFocusTime,
     goalAchieved |-> goalAchieved, history |-> history,
     interval |-> interval, lastFocusUpdate |-> lastFocusUpdate,
     storedSettings |-> storedSettings, storedHistory |-> storedHistory,
     storageOk |-> storageOk, crashed |-> crashed, saveFailed |-> saveFailed,
     focusRun |-> focusRun, settingsSet |-> FALSE,
     notified |-> 0, goalSignals |-> 0, evals |-> << >>, loaded |-> << >>]

\* What an action lets be observed.
Observed(r, kind) ==
    [kind |-> kind, notified |-> r.notified, goalSignals |-> r.goalSignals,
     evals |-> r.evals, loaded |-> r.loaded]

\* The state after an action: r is the settled render r0, kind names the
\* action.
Becomes(r0, kind) == \E r \in {r0} :
    /\ mode' = r.mode
    /\ settings' = r.settings
    /\ timeLeft' = r.timeLeft
    /\ initialTime' = r.initialTime
    /\ isRunning' = r.isRunning
    /\ startTime' = r.startTime
    /\ pausedTime' = r.pausedTime
    /\ pomodoroCount' = r.pomodoroCount
    /\ totalFocusTime' = r.totalFocusTime
    /\ goalAchieved' = r.goalAchieved
    /\ history' = r.history
    /\ interval' = r.interval
    /\ lastFocusUpdate' = r.lastFocusUpdate
    /\ storedSettings' = r.storedSettings
    /\ storedHistory' = r.storedHistory
    /\ storageOk' = r.storageOk
    /\ crashed' = r.crashed
    /\ saveFailed' = r.saveFailed
    /\ focusRun' = r.focusRun
    /\ ev' = Observed(r, kind)

\* function App(): the first render and its effects, with settings s0 and
\* history h0 loaded from the storage st.
Mount(s0, h0, st, t) ==
    LET today == getTodayData(h0, t)
        c == [mode |-> "focus", settings |-> s0,
              timeLeft |-> s0.focus * SecPerMinute,
              initialTime |-> s0.focus * SecPerMinute,
              isRunning |-> FALSE, startTime |-> NoTime, pausedTime |-> 0,
              pomodoroCount |-> today.pomodoroCount,
              totalFocusTime |-> today.totalFocusTime,
              goalAchieved |-> today.goalAchieved,
              history |-> h0,
              interval |-> FALSE, lastFocusUpdate |-> NoTime,
              storedSettings |-> st.storedSettings,
              storedHistory |-> st.storedHistory,
              storageOk |-> st.storageOk, crashed |-> FALSE,
              saveFailed |-> st.saveFailed, focusRun |-> NoRun,
              settingsSet |-> FALSE,
              notified |-> 0, goalSignals |-> 0, evals |-> << >>,
              loaded |-> << st.storedSettings.kind, st.storedHistory.kind >>]
    IN  Settle(c, c, TRUE, t)

\* The page is opened on the storage st.  loadSettings() is the initial state
\* of settings and loadHistory() of history; settings.focus and
\* history[today] are read in the function body, and reading a property of
\* null throws, which leaves nothing rendered.
Open(st, t) ==
    LET s == loadSettings(st.storedSettings)
        h == loadHistory(st.storedHistory)
    IN  IF s.type = "null" \/ h.type = "null"
        THEN [mode |-> "focus", settings |-> DEFAULT_SETTINGS,
              timeLeft |-> 0, initialTime |-> 0,
              isRunning |-> FALSE, startTime |-> NoTime, pausedTime |-> 0,
              pomodoroCount |-> 0, totalFocusTime |-> 0,
              goalAchieved |-> FALSE, history |-> {},
              interval |-> FALSE, lastFocusUpdate |-> NoTime,
              storedSettings |-> st.storedSettings,
              storedHistory |-> st.storedHistory,
              storageOk |-> st.storageOk, crashed |-> TRUE,
              saveFailed |-> st.saveFailed, focusRun |-> NoRun,
              settingsSet |-> FALSE,
              notified |-> 0, goalSignals |-> 0, evals |-> << >>,
              loaded |-> << st.storedSettings.kind, st.storedHistory.kind >>]
        ELSE Mount(CHOOSE v \in s.val : TRUE, CHOOSE v \in h.val : TRUE, st, t)

\* The variables hold the render r of a page just opened.
Opened(r) ==
    /\ mode = r.mode
    /\ settings = r.settings
    /\ timeLeft = r.timeLeft
    /\ initialTime = r.initialTime
    /\ isRunning = r.isRunning
    /\ startTime = r.startTime
    /\ pausedTime = r.pausedTime
    /\ pomodoroCount = r.pomodoroCount
    /\ totalFocusTime = r.totalFocusTime
    /\ goalAchieved = r.goalAchieved
    /\ history = r.history
    /\ interval = r.interval
    /\ lastFocusUpdate = r.lastFocusUpdate
    /\ storedSettings = r.storedSettings
    /\ storedHistory = r.storedHistory
    /\ storageOk = r.storageOk
    /\ crashed = r.crashed
    /\ saveFailed = r.saveFailed
    /\ focusRun = r.focusRun
    /\ ev = Observed(r, "mount")

\* A storage that works and holds the settings s0 and the history h0.
Stored(s0, h0) ==
    [storedSettings |-> JSONstringify(s0), storedHistory |-> JSONstringify(h0),
     storageOk |-> TRUE, saveFailed |-> FALSE]

\* What localStorage can hold for "pomodoroHistory" when the page is opened
\* at t: nothing, or a record this program wrote earlier the same day.
StoredHistories(t) ==
    { {},
      {[date |-> getTodayDate(t), totalFocusTime |-> 3599,
        pomodoroCount |-> 3, goalAchieved |-> FALSE]} }

Init ==
    /\ now \in StartTimes
    /\ tz = 0
    /\ currentDate = [y |-> LocalDate(now, tz).y, m |-> LocalDate(now, tz).m]
    /\ advances = 0
    /\ \E s0 \in SettingsChoices, h0 \in StoredHistories(now) :
         Opened(Open(Stored(s0, h0), now))

-----------------------------------------------------------------------------
(* Actions *)

\* Wall-clock time passes (the page may be in the background meanwhile).
Advance(d) ==
    /\ advances < MaxAdvances
    /\ now' = now + d
    /\ advances' = advances + 1
    /\ ev' = Observed(Cur, "advance")
    /\ UNCHANGED << mode, settings, timeLeft, initialTime, isRunning, startTime,
                    pausedTime, pomodoroCount, totalFocusTime, goalAchieved,
                    history, interval, lastFocusUpdate, tz, currentDate,
                    storedSettings, storedHistory, storageOk, crashed,
                    saveFailed, focusRun >>

\* Click on the start/stop button.
ToggleTimer ==
    /\ Becomes(Settle(Cur, toggleTimer(Cur, Cur), FALSE, now), "toggle")
    /\ UNCHANGED << now, tz, currentDate, advances >>

\* Click on the reset button.
ResetTimer ==
    /\ Becomes(Settle(Cur, resetTimer(Cur, Cur), FALSE, now), "reset")
    /\ UNCHANGED << now, tz, currentDate, advances >>

\* Click on a mode button (disabled while the timer runs).
SwitchMode(m) ==
    /\ ~isRunning
    /\ Becomes(Settle(Cur, switchMode(Cur, Cur, m, FALSE, now), FALSE, now),
               "switch")
    /\ UNCHANGED << now, tz, currentDate, advances >>

\* Save in the settings form.
UpdateSettings(newSettings) ==
    /\ Becomes(Settle(Cur, updateSettings(Cur, Cur, newSettings), FALSE, now),
               "settings")
    /\ UNCHANGED << now, tz, currentDate, advances >>

\* The interval fires.
PollTick ==
    /\ interval
    /\ Becomes(Settle(Cur, intervalTick(Cur, Cur, now), FALSE, now), "poll")
    /\ UNCHANGED << now, tz, currentDate, advances >>

\* The page becomes visible again.  React renders the updates queued outside
\* its own event handlers in a later task, so an interval tick that was
\* already due can run its callback against the same render before the
\* updates of the listener are applied (raced).
VisibilityChange(raced) ==
    /\ isRunning /\ startTime # NoTime
    /\ raced => interval
    /\ LET a == handleVisibilityChange(Cur, Cur, now)
           b == IF raced THEN intervalTick(Cur, a, now) ELSE a
       IN  Becomes(Settle(Cur, b, FALSE, now),
                   IF raced THEN "visibility+poll" ELSE "visibility")
    /\ UNCHANGED << now, tz, currentDate, advances >>

Next ==
    \/ \E d \in AdvanceSteps : Advance(d)
    \/ ToggleTimer
    \/ ResetTimer
    \/ \E m \in Modes : SwitchMode(m)
    \/ \E s \in SettingsChoices : UpdateSettings(s)
    \/ PollTick
    \/ \E raced \in BOOLEAN : VisibilityChange(raced)

Spec == Init /\ [][Next]_vars

-----------------------------------------------------------------------------
(* The system clock is set back while the page is open. *)

ClockAdvanceSteps == {1000, 60000}
BackSteps == {2000}

\* Date.now() is the system clock, which the user or a time service can set.
ClockBack(d) ==
    /\ advances < MaxAdvances
    /\ now' = now - d
    /\ advances' = advances + 1
    /\ ev' = Observed(Cur, "clockback")
    /\ UNCHANGED << mode, settings, timeLeft, initialTime, isRunning, startTime,
                    pausedTime, pomodoroCount, totalFocusTime, goalAchieved,
                    history, interval, lastFocusUpdate, tz, currentDate,
                    storedSettings, storedHistory, storageOk, crashed,
                    saveFailed, focusRun >>

NextClock ==
    \/ \E d \in ClockAdvanceSteps : Advance(d)
    \/ \E d \in BackSteps : ClockBack(d)
    \/ ToggleTimer
    \/ ResetTimer
    \/ \E m \in Modes : SwitchMode(m)
    \/ \E s \in SettingsChoices : UpdateSettings(s)
    \/ PollTick
    \/ \E raced \in BOOLEAN : VisibilityChange(raced)

SpecClock == Init /\ [][NextClock]_vars

-----------------------------------------------------------------------------
(* The settings form saves whatever numbers its inputs hold. *)

\* Number(e.target.value) of an emptied input is 0.
ZeroSettings ==
    [focus |-> 0, shortBreak |-> 1, longBreak |-> 1,
     autoStartBreaks |-> FALSE, autoStartFocus |-> FALSE,
     goalTime |-> 0, cycleCount |-> 0]

FormChoices == SettingsChoices \cup {ZeroSettings}
FormAdvanceSteps == {60000}

IsInvalid(s) ==
    s.focus <= 0 \/ s.shortBreak <= 0 \/ s.longBreak <= 0 \/ s.goalTime <= 0

NextForm ==
    /\ pomodoroCount < MaxSessions
    /\ \/ \E d \in FormAdvanceSteps : Advance(d)
       \/ ToggleTimer
       \/ ResetTimer
       \/ \E m \in Modes : SwitchMode(m)
       \/ \E s \in FormChoices : UpdateSettings(s)
       \/ PollTick
       \/ \E raced \in BOOLEAN : VisibilityChange(raced)

SpecForm == Init /\ [][NextForm]_vars

-----------------------------------------------------------------------------
(* The storage holds anything when the page is opened, setItem can throw,   *)
(* and the page can be closed and opened again.                             *)

StoreStartTimes == {MsPerDay - 61 * MsPerSecond}
StoreAdvanceSteps == {60000}

StoredSettingsItems ==
    {Absent, NullText, BrokenText}
        \cup {JSONstringify(s) : s \in SettingsChoices}

StoredHistoryItems(t) ==
    {Absent, NullText, BrokenText}
        \cup {JSONstringify(h) : h \in StoredHistories(t)}

\* The storage as the variables hold it.
Storage ==
    [storedSettings |-> storedSettings, storedHistory |-> storedHistory,
     storageOk |-> storageOk, saveFailed |-> saveFailed]

InitStore ==
    /\ now \in StoreStartTimes
    /\ tz = 0
    /\ currentDate = [y |-> LocalDate(now, tz).y, m |-> LocalDate(now, tz).m]
    /\ advances = 0
    /\ \E si \in StoredSettingsItems, hi \in StoredHistoryItems(now),
          ok \in BOOLEAN :
         Opened(Open([storedSettings |-> si, storedHistory |-> hi,
                      storageOk |-> ok, saveFailed |-> FALSE], now))

\* The storage stops accepting writes (the quota is used up).
StorageFails ==
    /\ storageOk
    /\ storageOk' = FALSE
    /\ ev' = Observed(Cur, "storage")
    /\ UNCHANGED << now, mode, settings, timeLeft, initialTime, isRunning,
                    startTime, pausedTime, pomodoroCount, totalFocusTime,
                    goalAchieved, history, interval, lastFocusUpdate, tz,
                    currentDate, advances, storedSettings, storedHistory,
                    crashed, saveFailed, focusRun >>

\* The page is closed and opened again: only the storage is kept.
Restart ==
    /\ Becomes(Open(Storage, now), "restart")
    /\ UNCHANGED << now, tz, currentDate, advances >>

\* The operations that write to the storage and those that drive them.
NextStore ==
    \/ /\ ~crashed
       /\ \/ \E d \in StoreAdvanceSteps : Advance(d)
          \/ ToggleTimer
          \/ \E s \in SettingsChoices : UpdateSettings(s)
          \/ PollTick
    \/ StorageFails
    \/ Restart

SpecStore == InitStore /\ [][NextStore]_vars

-----------------------------------------------------------------------------
(* The Calendar component, shown with the history of the App.              *)

MaxMonthsAway == 1

\* Time zones of the browser, minutes east of UTC (New York, UTC, Seoul).
TimeZones == {-300, 0, 540}

\* Clock values at which the page is opened: 20:00 UTC of the day after the
\* origin day (the last of the month), and 02:00 UTC of the day after that.
CalStartTimes == {MsPerDay + 20 * SecPerHour * MsPerSecond,
                  2 * MsPerDay + 2 * SecPerHour * MsPerSecond}

CalAdvanceSteps == {3 * SecPerHour * MsPerSecond, 8 * SecPerHour * MsPerSecond}

\* const getDateKey = (day) => `${year}-${month}-${dayStr}` of the month shown
getDateKey(cd, day) == [y |-> cd.y, m |-> cd.m, d |-> day]

\* dateKey === getTodayDate()
isToday(cd, day, t) == getDateKey(cd, day) = getTodayDate(t)

\* The filter of the monthly totals: new Date(record.date) read in local time.
InMonthTotal(rec, cd, offset) ==
    LET recordDate == LocalDate(ParseDate(rec.date), offset)
    IN  recordDate.m = cd.m /\ recordDate.y = cd.y

\* new Date(year, month - 1) and new Date(year, month + 1)
PrevMonth(cd) == IF cd.m > 1 THEN [cd EXCEPT !.m = @ - 1]
                 ELSE [y |-> cd.y - 1, m |-> 12]

NextMonth(cd) == IF cd.m < 12 THEN [cd EXCEPT !.m = @ + 1]
                 ELSE [y |-> cd.y + 1, m |-> 1]

\* Months from the month of the origin date.
MonthIndex(cd) == (cd.y - OriginDate.y) * 12 + (cd.m - OriginDate.m)

SessionVars ==
    << mode, settings, timeLeft, initialTime, isRunning, startTime, pausedTime,
       pomodoroCount, totalFocusTime, goalAchieved, history, interval,
       lastFocusUpdate, storedSettings, storedHistory, storageOk, crashed,
       saveFailed, focusRun >>

InitCal ==
    /\ now \in CalStartTimes
    /\ tz \in TimeZones
    /\ currentDate = [y |-> LocalDate(now, tz).y, m |-> LocalDate(now, tz).m]
    /\ advances = 0
    /\ Opened(Open(Stored(DEFAULT_SETTINGS, {}), now))

CalAdvance(d) ==
    /\ advances < MaxAdvances
    /\ now' = now + d
    /\ advances' = advances + 1
    /\ UNCHANGED << SessionVars, tz, currentDate, ev >>

goToPrevMonth ==
    /\ MonthIndex(PrevMonth(currentDate)) >= -MaxMonthsAway
    /\ currentDate' = PrevMonth(currentDate)
    /\ UNCHANGED << SessionVars, now, tz, advances, ev >>

goToNextMonth ==
    /\ MonthIndex(NextMonth(currentDate)) <= 1 + MaxMonthsAway
    /\ currentDate' = NextMonth(currentDate)
    /\ UNCHANGED << SessionVars, now, tz, advances, ev >>

NextCal ==
    \/ \E d \in CalAdvanceSteps : CalAdvance(d)
    \/ goToPrevMonth
    \/ goToNextMonth

SpecCal == InitCal /\ [][NextCal]_vars

-----------------------------------------------------------------------------
(* Properties *)

\* The actions that evaluate the running countdown.
EvalKinds == {"poll", "visibility", "visibility+poll"}

\* A countdown completion was handled by the last action.
Completed == ev.notified >= 1

\* C1: for every duration D > 0, anchor t and clock value now >= t, each
\* evaluation of the running countdown (poll tick or visibility listener)
\* computes max(0, D - floor((now - t) / 1000)) and, unless that is 0 and the
\* mode is switched, leaves it as the remaining time, whatever evaluations
\* came before.
C1_RemainingFromTimestamps ==
    [][ (ev'.kind \in EvalKinds /\ initialTime > 0
            /\ startTime # NoTime /\ now >= startTime)
        => LET r == Max0(initialTime - ((now - startTime) \div 1000))
           IN  /\ Len(ev'.evals) >= 1
               /\ \A i \in 1..Len(ev'.evals) : ev'.evals[i] = r
               /\ (r > 0 => timeLeft' = r) ]_vars

C1_Witness ==
    /\ ev.kind = "poll"
    /\ ev.evals = << timeLeft >>
    /\ 0 < timeLeft /\ timeLeft < initialTime
    /\ (now - startTime) % 1000 # 0

\* C2: running with duration 1500 s and anchor T, resumed at T + 1500500 ms
\* with no poll in between: the first evaluation after the resume reports
\* remaining 0 and the completion path (notification, counter increment,
\* mode switch) fires exactly once.
C2_SuspensionCatchUp ==
    [][ (ev'.kind \in EvalKinds /\ isRunning /\ mode = "focus"
            /\ initialTime = 1500 /\ timeLeft = 1500
            /\ startTime # NoTime /\ now - startTime = 1500500)
        => /\ ev'.evals[1] = 0
           /\ ev'.notified = 1
           /\ pomodoroCount' = pomodoroCount + 1
           /\ mode' \in {"shortBreak", "longBreak"} ]_vars

\* C3: for one countdown that reaches 0, however many evaluations observe 0
\* before the mode switch takes effect, the cycle counter is incremented
\* exactly once and the completion notification is issued exactly once.
C3_IdempotentCompletion ==
    [][ ev'.notified >= 1
        => /\ ev'.notified = 1
           /\ pomodoroCount' = pomodoroCount + (IF mode = "focus" THEN 1 ELSE 0) ]_vars

\* C4: a focus completion that raises the counter to n switches to longBreak
\* if n mod 4 = 0 and to shortBreak otherwise.
C4_LongBreakEveryFourth ==
    [][ (ev'.notified >= 1 /\ mode = "focus")
        => /\ pomodoroCount' = pomodoroCount + 1
           /\ mode' = IF pomodoroCount' % 4 = 0 THEN "longBreak" ELSE "shortBreak" ]_vars

C4_Witness ==
    /\ Completed
    /\ mode = "longBreak"
    /\ pomodoroCount = 4

\* C5: on every completion the running flag of the next period equals
\* settings.autoStartBreaks when the completed mode is focus and
\* settings.autoStartFocus when it is a break, and a completed break
\* switches to focus.
C5_AutoStartFollowsSettings ==
    [][ ev'.notified >= 1
        => /\ isRunning' = (IF mode = "focus" THEN settings.autoStartBreaks
                                              ELSE settings.autoStartFocus)
           /\ (mode # "focus" => mode' = "focus") ]_vars

C5_Witness ==
    /\ Completed
    /\ mode = "focus"
    /\ isRunning
    /\ ~settings.autoStartBreaks

C7_GoalSignalOnce ==
    [][ /\ ev'.goalSignals <= 1
        /\ (ev'.goalSignals = 1
              => /\ goalAchieved'
                 /\ totalFocusTime' >= settings'.goalTime * 3600
                 /\ (~goalAchieved \/ settings'.goalTime # settings.goalTime))
        /\ (settings'.goalTime = settings.goalTime
              => /\ (goalAchieved => goalAchieved' /\ ev'.goalSignals = 0)
                 /\ (~goalAchieved /\ totalFocusTime' >= settings.goalTime * 3600
                       => goalAchieved' /\ ev'.goalSignals = 1)) ]_vars

C7_Witness ==
    /\ ev.kind = "poll"
    /\ ev.goalSignals = 1
    /\ settings.goalTime = 1
    /\ totalFocusTime = 3600
    /\ goalAchieved

\* C8: focus seconds are attributed to the calendar date in effect when they
\* were earned: the record of a date holds no seconds earned on an earlier
\* date, so it never holds more seconds than have passed of that date.
C8_DateAttribution ==
    \A r \in history :
        r.totalFocusTime * 1000 <= Max0(now - ParseDate(r.date))

\* C9: the date key uses the same local-calendar-day boundary everywhere: the
\* key the ledger writes for today is the key of the local day, which the
\* calendar marks as today when it shows that month, and the monthly totals
\* count a record in the month of its key.
C9_DateKeyConsistent ==
    LET local == LocalDate(now, tz)
    IN  /\ getTodayDate(now) = local
        /\ (currentDate = [y |-> local.y, m |-> local.m]
              => isToday(currentDate, local.d, now))
        /\ \A r \in history :
              InMonthTotal(r, currentDate, tz)
                  <=> (r.date.y = currentDate.y /\ r.date.m = currentDate.m)

\* C10: in every reachable state, running implies an anchor start time.
C10_RunningHasAnchor == isRunning => startTime # NoTime

\* C11: whenever the timer is not running the remaining time is frozen: it
\* equals the paused time, no interval is set, the visibility listener leaves
\* the render as it is, and a step in which only the clock moves or the page
\* becomes visible does not change it.
C11_FrozenWhileStopped ==
    [][ /\ ~isRunning =>
             /\ timeLeft = pausedTime
             /\ ~interval
             /\ \A d \in AdvanceSteps :
                   handleVisibilityChange(Cur, Cur, now + d) = Cur
        /\ (~isRunning /\ ev'.kind \in EvalKinds \cup {"advance"}
              => timeLeft' = timeLeft /\ pausedTime' = pausedTime) ]_vars

C11_Witness ==
    /\ ~isRunning
    /\ ev.kind = "advance"
    /\ 0 < timeLeft /\ timeLeft < initialTime

\* C12: after a settings update, in whatever state it is invoked, the timer
\* is not running.
C12_SettingsUpdateStops == [][ev'.kind = "settings" => ~isRunning']_vars

\* C13: after updateSettings(newSettings) the mode is unchanged and both the
\* duration and the remaining time are newSettings[mode] * 60: the progress
\* of the countdown is discarded.
C13_SettingsUpdateResetsTime ==
    [][ \A s \in SettingsChoices :
          UpdateSettings(s) =>
             /\ settings' = s
             /\ mode' = mode
             /\ initialTime' = s[mode] * 60
             /\ timeLeft' = s[mode] * 60 ]_vars

C13_Witness ==
    /\ ev.kind = "settings"
    /\ advances >= 1
    /\ isRunning
    /\ settings = QuickSettings
    /\ mode = "shortBreak"
    /\ timeLeft = 60 /\ initialTime = 60

\* C14: invalid settings (a duration or the goal not positive) are rejected
\* at the update boundary: the settings, the duration and the remaining time
\* stay as they were, so the duration is positive in every reachable state.
C14_InvalidSettingsRejected ==
    [][ \A s \in FormChoices :
          IsInvalid(s) /\ UpdateSettings(s) =>
             /\ settings' = settings
             /\ initialTime' = initialTime
             /\ timeLeft' = timeLeft
             /\ initialTime' > 0 ]_vars

\* C15: an evaluation of the running countdown that reads a clock earlier
\* than the anchor start time keeps the remaining time at its last known
\* value; the remaining time is never negative and never exceeds the duration.
C15_ClockAnomalyClamped ==
    [][ /\ (ev'.kind \in EvalKinds /\ now < startTime => timeLeft' = timeLeft)
        /\ 0 <= timeLeft' /\ timeLeft' <= initialTime' ]_vars

\* C16: a load that finds no item, an unparsable text, or a text that parses
\* to something that is not a valid record (the text null) falls back to
\* DEFAULT_SETTINGS or to the empty history, and the page reaches focus mode,
\* not running, with a positive duration.
C16_LoadFallsBack ==
    ev.kind \in {"mount", "restart"} =>
        /\ ~crashed
        /\ mode = "focus" /\ ~isRunning /\ initialTime > 0
        /\ (ev.loaded[1] # "json" => settings = DEFAULT_SETTINGS)
        /\ (ev.loaded[2] # "json" =>
               pomodoroCount = 0 /\ totalFocusTime = 0 /\ ~goalAchieved)

\* The state React and the timer effect hold, without the storage.
InMemory(r) == << Rendered(r), r.interval, r.lastFocusUpdate >>

\* The current render on a storage that accepts writes.
CurWritable == [Cur EXCEPT !.storageOk = TRUE]

\* C17: a save that fails neither rolls back nor blocks the change: the
\* stored items stay as they were, the history in memory holds the record of
\* the new counters, and the step ends in the state it ends in when the save
\* succeeds.
C17_FailedSaveKeepsMemory ==
    [][ ~storageOk /\ ~crashed =>
          /\ (ev'.kind \notin {"storage", "restart"} =>
                 /\ storedSettings' = storedSettings
                 /\ storedHistory' = storedHistory)
          /\ (<< totalFocusTime', pomodoroCount', goalAchieved' >>
                   # << totalFocusTime, pomodoroCount, goalAchieved >>
                 /\ ev'.kind # "restart"
                 => [date |-> getTodayDate(now),
                     totalFocusTime |-> totalFocusTime',
                     pomodoroCount |-> pomodoroCount',
                     goalAchieved |-> goalAchieved'] \in history')
          /\ (PollTick =>
                 InMemory(Cur)' = InMemory(Settle(CurWritable,
                     intervalTick(CurWritable, CurWritable, now), FALSE, now)))
          /\ \A s \in SettingsChoices :
                 UpdateSettings(s) =>
                    /\ settings' = s
                    /\ InMemory(Cur)' = InMemory(Settle(CurWritable,
                          updateSettings(CurWritable, CurWritable, s),
                          FALSE, now)) ]_vars

C17_Witness ==
    /\ ~storageOk /\ saveFailed
    /\ ev.kind = "poll"
    /\ pomodoroCount = 1 /\ totalFocusTime = 60
    /\ settings = QuickSettings
    /\ storedSettings = JSONstringify(DEFAULT_SETTINGS)
    /\ \A h \in storedHistory.json : \A r \in h : r.pomodoroCount = 0

\* The whole session so far was spent on the calendar date of its start.
OnFirstDay == \A t0 \in StoreStartTimes : getTodayDate(now) = getTodayDate(t0)

\* C18: after any sequence of operations whose saves succeeded, a restart
\* on the same calendar date starts with the settings last saved and with
\* the completed count, the focus total and goalAchieved of just before it.
C18_RestartKeepsState ==
    [][ Restart /\ ~crashed /\ ~saveFailed /\ OnFirstDay =>
          /\ ~crashed'
          /\ settings' = settings
          /\ pomodoroCount' = pomodoroCount
          /\ totalFocusTime' = totalFocusTime
          /\ goalAchieved' = goalAchieved ]_vars

C18_Witness ==
    /\ ev.kind = "restart"
    /\ ~saveFailed /\ ~crashed
    /\ OnFirstDay
    /\ settings = QuickSettings
    /\ pomodoroCount = 1 /\ totalFocusTime = 60

\* C19: on every path that completes a focus countdown (interval tick or
\* visibility listener) the focus seconds elapsed since the last accounting
\* point are added to the total before the mode is switched.
C19_AccountingBeforeCompletion ==
    [][ ev'.kind \in EvalKinds /\ ev'.notified >= 1 /\ mode = "focus" /\ interval
          => totalFocusTime' >=
                 totalFocusTime + ((now - lastFocusUpdate) \div 1000) ]_vars

\* C20: focus time is not undercounted: over the time the timer has been
\* running in focus mode, however late or irregular the ticks, the seconds
\* added to the total are the whole seconds of wall-clock time elapsed; a
\* focus countdown of duration D run to completion adds D.  (Stated for the
\* ticks up to the deadline of the countdown.)
C20_FocusTimeNotUndercounted ==
    [][ /\ ev'.kind = "poll"
        /\ mode = "focus"
        /\ focusRun.since # NoTime
        /\ now <= startTime + initialTime * 1000
        => totalFocusTime' - focusRun.base
               = (now - focusRun.since) \div 1000 ]_vars

\* The timer state a stale tick must leave alone.
TimerState(r) ==
    << r.timeLeft, r.totalFocusTime, r.pomodoroCount, r.mode >>

\* C21: polling is cancelled whenever the timer stops: no interval is set
\* in a state that is not running, and a tick created for an earlier anchor
\* changes neither the remaining time, the focus total, the counter nor the
\* mode once that anchor has been invalidated (here: by the mode switch of
\* the visibility listener that completed the countdown).
C21_NoStaleTick ==
    [][ /\ ~isRunning => ~interval
        /\ (ev'.kind = "visibility+poll" /\ ev'.evals[1] = 0 =>
               TimerState(Cur)' =
                   TimerState(Settle(Cur, handleVisibilityChange(Cur, Cur, now),
                                     FALSE, now))) ]_vars

\* C22: reset, in any state, sets the remaining time back to the full
\* duration of the current mode, stops the timer and clears the anchor.
C22_ResetRestoresDuration ==
    [][ ResetTimer =>
          /\ timeLeft' = initialTime
          /\ initialTime' = initialTime
          /\ initialTime = settings[mode] * 60
          /\ mode' = mode
          /\ ~isRunning'
          /\ startTime' = NoTime ]_vars

C22_Witness ==
    /\ ev.kind = "reset"
    /\ advances >= 2
    /\ totalFocusTime = 1
    /\ timeLeft = initialTime
    /\ ~isRunning /\ startTime = NoTime

\* The autoStart argument handleTimerComplete passes to switchMode.
AutoStartOf(m, st) ==
    IF m = "focus" THEN st.autoStartBreaks ELSE st.autoStartFocus

\* C23: switchMode(target, autoStart) leaves mode = target, the duration and
\* the remaining time both settings[target] * 60 and running = autoStart;
\* with autoStart the anchor is the current time in the same step, so an
\* evaluation at once sees the full duration; without it there is no anchor.
C23_SwitchModeLoadsTarget ==
    [][ /\ \A m \in Modes :
             SwitchMode(m) =>
                /\ mode' = m
                /\ initialTime' = settings[m] * 60
                /\ timeLeft' = settings[m] * 60
                /\ ~isRunning'
                /\ startTime' = NoTime
        /\ (ev'.kind \in EvalKinds /\ ev'.notified >= 1 =>
               /\ mode' = IF mode = "focus" THEN NextBreak(pomodoroCount + 1)
                                            ELSE "focus"
               /\ initialTime' = settings[mode'] * 60
               /\ timeLeft' = settings[mode'] * 60
               /\ isRunning' = AutoStartOf(mode, settings)
               /\ (isRunning' =>
                      /\ startTime' = now
                      /\ Remaining(initialTime', startTime', now) = initialTime')
               /\ (~isRunning' => startTime' = NoTime)) ]_vars

C23_Witness ==
    /\ Completed
    /\ mode = "focus"
    /\ isRunning /\ startTime = now
    /\ timeLeft = 60 /\ initialTime = 60

\* C24: pausing freezes the remaining time computed at that instant: when
\* the toggle stops the running timer at clock value now, the paused time
\* becomes max(0, D - floor((now - anchor) / 1000)) and the anchor is cleared.
C24_PauseFreezesComputed ==
    [][ ToggleTimer /\ isRunning /\ startTime # NoTime =>
          /\ pausedTime' = Remaining(initialTime, startTime, now)
          /\ startTime' = NoTime ]_vars

\* C25: a ledger write replaces only the record of the current date: every
\* record of another date is in the history after the write as it was
\* before, a record that is new is the one of the current date, and what is
\* stored is the history so written.
C25_OtherDatesKept ==
    [][ /\ \A r \in history : r.date # getTodayDate(now) => r \in history'
        /\ \A r \in history' \ history : r.date = getTodayDate(now)
        /\ \A r1, r2 \in history' : r1.date = r2.date => r1 = r2
        /\ (storedHistory' # storedHistory
              => storedHistory' = JSONstringify(history')) ]_vars

C25_Witness ==
    /\ ev.kind = "poll"
    /\ Cardinality(history) = 2
    /\ \E r \in history : r.date # getTodayDate(now) /\ r.pomodoroCount = 3
    /\ \E r \in history : r.date = getTodayDate(now) /\ r.pomodoroCount = 4

\* C26: a settings update with a goal different from the current one resets
\* goalAchieved, after which the goal is evaluated against the new value and
\* is signalled again if the total already meets it; an update with the goal
\* unchanged leaves goalAchieved as it was and signals nothing.
C26_GoalResetOnChange ==
    [][ \A s \in SettingsChoices :
          UpdateSettings(s) =>
             IF s.goalTime # settings.goalTime
             THEN /\ goalAchieved' = (totalFocusTime >= s.goalTime * 3600)
                  /\ ev'.goalSignals = IF goalAchieved' THEN 1 ELSE 0
             ELSE /\ goalAchieved' = goalAchieved
                  /\ ev'.goalSignals = 0 ]_vars

C26_Witness ==
    /\ ev.kind = "settings"
    /\ ev.goalSignals = 1
    /\ goalAchieved
    /\ settings.goalTime = 1
    /\ totalFocusTime >= 3600

\* The same settings with another cycle display count.
AltSettings(st) == [st EXCEPT !.cycleCount = @ + 1]

\* The render r of a run that differs in settings.cycleCount only.
Alt(r) == [r EXCEPT !.settings = AltSettings(@)]

\* Everything of a render but the cycle display count and the stored settings.
Visible(r) ==
    << r.mode, r.isRunning, r.timeLeft, r.initialTime, r.pomodoroCount,
       r.startTime, r.pausedTime, r.totalFocusTime, r.goalAchieved, r.history,
       r.interval, r.lastFocusUpdate, r.notified, r.goalSignals, r.evals,
       [r.settings EXCEPT !.cycleCount = 0] >>

\* The handler F takes both runs to renders that differ in the same way.
SameStep(F(_)) ==
    Visible(Settle(Alt(Cur), F(Alt(Cur)), FALSE, now))
        = Visible(Settle(Cur, F(Cur), FALSE, now))

\* Clock steps that complete a countdown of either settings at once.
CycleAdvanceSteps == {60000, 1500500}

NextCycle ==
    \/ \E d \in CycleAdvanceSteps : Advance(d)
    \/ ToggleTimer
    \/ ResetTimer
    \/ \E m \in Modes : SwitchMode(m)
    \/ \E s \in SettingsChoices : UpdateSettings(s)
    \/ PollTick
    \/ \E raced \in BOOLEAN : VisibilityChange(raced)

SpecCycle == Init /\ [][NextCycle]_vars

\* C27: the long break does not depend on the cycle display count: from
\* two states that differ only in settings.cycleCount the same event leads
\* to the same mode, running flag, remaining time, counter and signals (and
\* to states that again differ only in settings.cycleCount), so two runs
\* that receive the same events go through the same sequence of them.
C27_CycleCountIndependent ==
    /\ SameStep(LAMBDA r : toggleTimer(r, r))
    /\ SameStep(LAMBDA r : resetTimer(r, r))
    /\ \A m \in Modes : SameStep(LAMBDA r : switchMode(r, r, m, FALSE, now))
    /\ \A s \in SettingsChoices :
          Visible(Settle(Alt(Cur), updateSettings(Alt(Cur), Alt(Cur),
                                                  AltSettings(s)), FALSE, now))
              = Visible(Settle(Cur, updateSettings(Cur, Cur, s), FALSE, now))
    /\ (interval => SameStep(LAMBDA r : intervalTick(r, r, now)))
    /\ (isRunning /\ startTime # NoTime =>
          /\ SameStep(LAMBDA r : handleVisibilityChange(r, r, now))
          /\ (interval =>
                 SameStep(LAMBDA r :
                     intervalTick(r, handleVisibilityChange(r, r, now), now))))

C27_Witness ==
    /\ Completed
    /\ mode = "longBreak"
    /\ pomodoroCount = 4
    /\ settings.cycleCount = 60

\* C28: the counter of completed sessions changes only when a focus
\* countdown completes, and then by exactly +1; a completed break, a toggle,
\* a reset, a mode switch, a settings update, a tick or a visibility event
\* that does not complete leave it as it is.
C28_CounterOnlyOnFocusCompletion ==
    [][ /\ (pomodoroCount' # pomodoroCount =>
               /\ ev'.kind \in EvalKinds
               /\ ev'.notified >= 1
               /\ mode = "focus"
               /\ pomodoroCount' = pomodoroCount + 1)
        /\ (ev'.kind \in EvalKinds /\ ev'.notified >= 1 /\ mode = "focus"
               => pomodoroCount' = pomodoroCount + 1) ]_vars

C28_Witness ==
    /\ ev.kind = "poll"
    /\ ev.notified = 1
    /\ mode = "focus"
    /\ pomodoroCount = 1

\* C29: the focus seconds credited to the total during one focus countdown
\* never exceed the duration of that countdown, also when the first tick
\* after a suspension longer than the remaining time accounts for the gap.
C29_CreditWithinDuration ==
    [][ ev'.kind \in EvalKinds /\ mode = "focus" /\ focusRun.since # NoTime
          => totalFocusTime' - focusRun.base <= initialTime ]_vars

\* C30: with a clock that never goes backward, in every reachable state
\* 0 <= remaining <= duration, and the duration is settings[mode] * 60 of
\* the settings in force (every settings update reloads the duration).
C30_RemainingWithinDuration ==
    /\ 0 <= timeLeft
    /\ timeLeft <= initialTime
    /\ initialTime = settings[mode] * 60

C30_Witness ==
    /\ ev.kind \in EvalKinds
    /\ isRunning
    /\ mode = "longBreak"
    /\ 0 < timeLeft /\ timeLeft < initialTime

\* C31: the total of focus seconds of the day never decreases, and it
\* changes only through a tick of the interval that runs while the mode is
\* focus and the timer is running; no event in a break mode, no toggle, no
\* reset, no manual switch and no settings update changes it.
C31_TotalOnlyByFocusTick ==
    [][ /\ totalFocusTime' >= totalFocusTime
        /\ (totalFocusTime' # totalFocusTime =>
               /\ ev'.kind \in {"poll", "visibility+poll"}
               /\ mode = "focus"
               /\ isRunning) ]_vars

C31_Witness ==
    /\ ev.kind = "poll"
    /\ ev.notified = 0
    /\ mode = "shortBreak"
    /\ isRunning
    /\ timeLeft < initialTime
    /\ totalFocusTime = 60

\* The record of the date of t in the stored history item, as a set (empty
\* when the item holds no record of that date).
StoredRecords(item, t) ==
    {r \in UNION item.json : r.date = getTodayDate(t)}

\* C32: after every change of the in-memory counters (total of focus
\* seconds, count of sessions, goalAchieved) whose save succeeds, the stored
\* history holds for the current date a record with exactly these three
\* values; after every settings update whose save succeeds, the stored
\* settings are the settings in memory.
C32_SavedMatchesMemory ==
    [][ storageOk /\ ~crashed /\ ev'.kind \notin {"restart", "storage"} =>
          /\ (<< totalFocusTime', pomodoroCount', goalAchieved' >>
                 # << totalFocusTime, pomodoroCount, goalAchieved >>
                => StoredRecords(storedHistory', now') =
                      {[date |-> getTodayDate(now'),
                        totalFocusTime |-> totalFocusTime',
                        pomodoroCount |-> pomodoroCount',
                        goalAchieved |-> goalAchieved']})
          /\ (ev'.kind = "settings"
                => storedSettings' = JSONstringify(settings')) ]_vars

C32_Witness ==
    /\ ev.kind = "poll"
    /\ storageOk /\ ~saveFailed
    /\ ev.notified = 1
    /\ pomodoroCount = 1
    /\ StoredRecords(storedHistory, now) =
          {[date |-> getTodayDate(now), totalFocusTime |-> totalFocusTime,
            pomodoroCount |-> 1, goalAchieved |-> goalAchieved]}
    /\ storedSettings = JSONstringify(QuickSettings)

\* C33: a mode button acts only while the timer is not running and never
\* starts it: after the switch the mode is the target, the remaining time is
\* the full duration of the target, the timer is not running, and the count
\* of sessions and the total of focus seconds are as before.
C33_ManualSwitchFrame ==
    [][ \A m \in Modes :
          SwitchMode(m) =>
            /\ ~isRunning
            /\ mode' = m
            /\ timeLeft' = settings[m] * SecPerMinute
            /\ ~isRunning'
            /\ pomodoroCount' = pomodoroCount
            /\ totalFocusTime' = totalFocusTime ]_vars

C33_Witness ==
    /\ ev.kind = "switch"
    /\ mode = "longBreak"
    /\ ~isRunning
    /\ timeLeft = settings.longBreak * SecPerMinute
    /\ pomodoroCount = 1
    /\ totalFocusTime = 60

\* C34: under completions the modes alternate: a completed focus countdown
\* is never followed by focus, a completed break is always followed by
\* focus; the break entered is the long one exactly when the count of
\* sessions, which each completed focus countdown raises by one and a break
\* leaves alone, reaches a multiple of four, so that four completed focus
\* sessions lie between two long breaks.
C34_CompletionsAlternate ==
    [][ ev'.kind \in EvalKinds /\ ev'.notified >= 1 =>
          IF mode = "focus"
          THEN /\ mode' # "focus"
               /\ pomodoroCount' = pomodoroCount + 1
               /\ (mode' = "longBreak") = (pomodoroCount' % LongBreakEvery = 0)
          ELSE /\ mode' = "focus"
               /\ pomodoroCount' = pomodoroCount ]_vars

C34_Witness ==
    /\ ev.kind = "poll"
    /\ ev.notified = 1
    /\ mode = "focus"
    /\ pomodoroCount = 4
    /\ timeLeft = initialTime

\* The clock of a running countdown advances (up to its deadline, which
\* bounds the model: past it only the next tick matters).
LiveAdvanceSteps == {300000}

ClockRuns(d) ==
    /\ isRunning /\ startTime # NoTime
    /\ now < startTime + initialTime * MsPerSecond
    /\ now' = now + d
    /\ ev' = Observed(Cur, "advance")
    /\ UNCHANGED << mode, settings, timeLeft, initialTime, isRunning, startTime,
                    pausedTime, pomodoroCount, totalFocusTime, goalAchieved,
                    history, interval, lastFocusUpdate, tz, currentDate,
                    advances, storedSettings, storedHistory, storageOk,
                    crashed, saveFailed, focusRun >>

\* Click on the start/stop button of a timer that is not running.
StartTimer ==
    /\ ~isRunning
    /\ pomodoroCount < MaxSessions
    /\ ToggleTimer

\* Countdowns that nobody pauses, resets, reconfigures or switches.
NextLive ==
    \/ StartTimer
    \/ \E d \in LiveAdvanceSteps : ClockRuns(d)
    \/ PollTick
    \/ \E raced \in BOOLEAN : VisibilityChange(raced)

\* The clock advances and the interval of a running timer fires (setInterval
\* with 100 ms); nothing is assumed about visibility events.
SpecLive ==
    /\ Init
    /\ [][NextLive]_vars
    /\ WF_vars(\E d \in LiveAdvanceSteps : ClockRuns(d))
    /\ WF_vars(PollTick)

\* C35: a running countdown with an anchor and a positive duration, whose
\* clock keeps advancing and whose ticks keep firing, and which is not
\* paused, reset, reconfigured or switched, eventually completes, and the
\* machine is then in the next mode.
C35_RunningCompletes ==
    \A m \in Modes :
        (isRunning /\ startTime # NoTime /\ initialTime > 0 /\ mode = m)
            ~> (ev.kind \in EvalKinds /\ ev.notified >= 1 /\ mode # m)

C35_Witness ==
    /\ ev.kind = "poll"
    /\ ev.notified = 1
    /\ mode = "shortBreak"
    /\ isRunning /\ startTime = now
    /\ pomodoroCount = 1
    /\ settings = DEFAULT_SETTINGS

\* A save succeeds again after it failed (setItem throws per call).
StorageRecovers ==
    /\ ~storageOk
    /\ storageOk' = TRUE
    /\ ev' = Observed(Cur, "storage")
    /\ UNCHANGED << now, mode, settings, timeLeft, initialTime, isRunning,
                    startTime, pausedTime, pomodoroCount, totalFocusTime,
                    goalAchieved, history, interval, lastFocusUpdate, tz,
                    currentDate, advances, storedSettings, storedHistory,
                    crashed, saveFailed, focusRun >>

NextRecover == NextStore \/ StorageRecovers

SpecRecover == InitStore /\ [][NextRecover]_vars

\* C36: in every reachable state goalAchieved implies that the total of
\* focus seconds is at least settings.goalTime * 3600 of the goal in force,
\* also after a settings update raised or lowered the goal.
C36_GoalAchievedMeansReached ==
    goalAchieved => totalFocusTime >= settings.goalTime * SecPerHour

-----------------------------------------------------------------------------
(* The tick-counting variant (tomato-60/src/App.tsx): no clock is read, the
   interval of the timer effect takes one second off the remaining time. *)

\* A render of the tick-counting App.
TickRender(r) ==
    [mode |-> r.mode, settings |-> r.settings, timeLeft |-> r.timeLeft,
     initialTime |-> r.initialTime, isRunning |-> r.isRunning,
     pomodoroCount |-> r.pomodoroCount, totalFocusTime |-> r.totalFocusTime,
     goalAchieved |-> r.goalAchieved,
     interval |-> r.isRunning /\ r.timeLeft > 0]

tickSwitchMode(c, a, newMode, autoStart) ==
    LET newTime == c.settings[newMode] * SecPerMinute
    IN  [a EXCEPT !.mode = newMode,
                  !.timeLeft = newTime,
                  !.initialTime = newTime,
                  !.isRunning = autoStart]

tickHandleTimerComplete(c, a) ==
    LET a1 == [a EXCEPT !.isRunning = FALSE]
        newCount == c.pomodoroCount + 1
    IN  IF c.mode = "focus"
        THEN tickSwitchMode(c, [a1 EXCEPT !.pomodoroCount = newCount],
                            NextBreak(newCount), c.settings.autoStartBreaks)
        ELSE tickSwitchMode(c, a1, "focus", c.settings.autoStartFocus)

tickToggleTimer(c, a) == [a EXCEPT !.isRunning = ~c.isRunning]

tickResetTimer(c, a) ==
    [a EXCEPT !.isRunning = FALSE,
              !.timeLeft = c.initialTime]

tickUpdateSettings(c, a, newSettings) ==
    LET newTime == newSettings[c.mode] * SecPerMinute
    IN  [a EXCEPT !.settings = newSettings,
                  !.timeLeft = newTime,
                  !.initialTime = newTime,
                  !.goalAchieved =
                      IF newSettings.goalTime # c.settings.goalTime THEN FALSE ELSE @]

\* The setInterval callback: the updaters take the queued values, the mode is
\* that of the render.
tickInterval(c, a) ==
    [a EXCEPT !.timeLeft = @ - 1,
              !.totalFocusTime = IF c.mode = "focus" THEN @ + 1 ELSE @]

\* useEffect(..., [totalFocusTime, settings.goalTime, goalAchieved])
tickGoalEffect(p, c, a, mount) ==
    IF (mount \/ p.totalFocusTime # c.totalFocusTime
              \/ p.settings.goalTime # c.settings.goalTime
              \/ p.goalAchieved # c.goalAchieved)
       /\ ~c.goalAchieved
       /\ c.totalFocusTime >= c.settings.goalTime * SecPerHour
    THEN [a EXCEPT !.goalAchieved = TRUE]
    ELSE a

\* useEffect(..., [isRunning, timeLeft, mode]): a new interval while running
\* with time left, the completion at zero.
tickTimerEffect(p, c, a, mount) ==
    IF mount \/ p.isRunning # c.isRunning \/ p.timeLeft # c.timeLeft
             \/ p.mode # c.mode
    THEN IF c.isRunning /\ c.timeLeft > 0
         THEN [a EXCEPT !.interval = TRUE]
         ELSE IF c.timeLeft = 0 /\ c.isRunning
              THEN tickHandleTimerComplete(c, [a EXCEPT !.interval = FALSE])
              ELSE [a EXCEPT !.interval = FALSE]
    ELSE a

tickEffectPass(p, c, mount) ==
    tickTimerEffect(p, c, tickGoalEffect(p, c, c, mount), mount)

RECURSIVE tickSettle(_, _, _)
tickSettle(p, c, mount) ==
    CHOOSE r \in UNION {{IF [n EXCEPT !.interval = FALSE]
                              = [c0 EXCEPT !.interval = FALSE]
                            THEN n ELSE tickSettle(c0, n, FALSE)
                            : n \in {tickEffectPass(p, c0, mount)}}
                         : c0 \in {c}} : TRUE

\* What both variants show: mode, remaining, running, counter, focus total.
Shown(r) ==
    << r.mode, r.timeLeft, r.isRunning, r.pomodoroCount, r.totalFocusTime >>

\* One second of a running timer passes and the interval, if there is one,
\* fires on time.  (While both timers are stopped a second changes nothing.)
MaxSeconds == 122

Second ==
    /\ advances < MaxSeconds
    /\ isRunning
    /\ now' = now + MsPerSecond
    /\ advances' = advances + 1
    /\ IF interval
       THEN Becomes(Settle(Cur, intervalTick(Cur, Cur, now'), FALSE, now'),
                    "poll")
       ELSE /\ ev' = Observed(Cur, "advance")
            /\ UNCHANGED << mode, settings, timeLeft, initialTime, isRunning,
                            startTime, pausedTime, pomodoroCount,
                            totalFocusTime, goalAchieved, history, interval,
                            lastFocusUpdate, storedSettings, storedHistory,
                            storageOk, crashed, saveFailed, focusRun >>
    /\ UNCHANGED << tz, currentDate >>

\* Both variants opened with nothing stored: the default settings, no
\* session and no focus time yet.
InitOnTime ==
    /\ Init
    /\ settings = DEFAULT_SETTINGS
    /\ pomodoroCount = 0
    /\ totalFocusTime = 0

\* The user acts in the seconds around a whole minute of running time
\* (where a countdown of one minute starts and completes), not in between.
EarlySeconds == 2
LateSeconds == 59
UserMoment ==
    \/ advances % SecPerMinute < EarlySeconds
    \/ advances % SecPerMinute >= LateSeconds

NextOnTime ==
    \/ Second
    \/ UserMoment /\ ToggleTimer
    \/ UserMoment /\ ResetTimer
    \/ \E m \in Modes : UserMoment /\ SwitchMode(m)
    \/ \E s \in SettingsChoices : UserMoment /\ UpdateSettings(s)

SpecOnTime == InitOnTime /\ [][NextOnTime]_vars

\* C37: with ticks exactly once per second, no suspension and no clock
\* anomaly, the timestamp variant and the tick-counting variant go through
\* the same states (mode, remaining, running, counter, focus total) for the
\* same user events: every step of the timestamp variant shows what the
\* tick-counting variant shows after the same event from the same state.
C37_SameAsTickCounting ==
    [][ \A T \in {TickRender(Cur)}, after \in {Shown(Cur)'} :
          /\ (Second =>
                after = Shown(IF T.interval
                              THEN tickSettle(T, tickInterval(T, T), FALSE)
                              ELSE T))
          /\ (ToggleTimer =>
                after = Shown(tickSettle(T, tickToggleTimer(T, T), FALSE)))
          /\ (ResetTimer =>
                after = Shown(tickSettle(T, tickResetTimer(T, T), FALSE)))
          /\ \A m \in Modes :
               SwitchMode(m) =>
                 after = Shown(tickSettle(T, tickSwitchMode(T, T, m, FALSE),
                                          FALSE))
          /\ \A s \in SettingsChoices :
               UpdateSettings(s) =>
                 after = Shown(tickSettle(T, tickUpdateSettings(T, T, s),
                                          FALSE)) ]_vars

\* C38: the reset and the start/stop toggle leave the mode, the settings,
\* the configured duration, the count of sessions, the total of focus
\* seconds and goalAchieved as they were.
C38_ResetToggleFrame ==
    [][ ToggleTimer \/ ResetTimer =>
          /\ mode' = mode
          /\ settings' = settings
          /\ initialTime' = initialTime
          /\ pomodoroCount' = pomodoroCount
          /\ totalFocusTime' = totalFocusTime
          /\ goalAchieved' = goalAchieved ]_vars

C38_Witness ==
    /\ ev.kind = "reset"
    /\ mode = "shortBreak"
    /\ timeLeft = initialTime
    /\ pomodoroCount = 1
    /\ totalFocusTime = 60

=============================================================================
